---- MODULE Spec2Model ----
(***************************************************************************)
(* A model of lightwood's GluonTS mixer (lightwood/mixer/gluonts.py):      *)
(* the dataset builder _make_initial_ds, the mixer operations fit,         *)
(* partial_fit and __call__, and the EarlyStop training callback.          *)
(*                                                                         *)
(* A data frame is a sequence of rows in positional (iloc) order.  A row   *)
(* is [idx |-> label, cols |-> [column name |-> value]]: idx is the        *)
(* frame's index label, the instant resample() buckets on and sort_index() *)
(* orders by; cols are the columns, which is all drop_duplicates()         *)
(* compares.  An optional value (None or x) is <<>> or <<x>>.              *)
(* Confidence levels are percentages, so 0.9 is 90 and 1 - conf is         *)
(* 100 - conf.                                                             *)
(***************************************************************************)
EXTENDS Integers, Sequences, FiniteSets, TLC

VARIABLES
    group_by,                \* ts_analysis['tss'].group_by
    freq,                    \* ts_analysis['sample_freqs']['__default']
    model,                   \* GluonTSMixer.model
    train_cache,             \* GluonTSMixer.train_cache
    prepared,                \* GluonTSMixer.prepared
    hyperparam_search,       \* GluonTSMixer.hyperparam_search
    cat_df,                  \* the frame the latest training call built its dataset from
    pc,                      \* "caller": between operations; "returned": one has just ended
    op,                      \* that operation and its arguments
    raised,                  \* whether it raised
    ydf,                     \* what it returned, when it is __call__
    contexts,                \* the datasets _make_initial_ds built during it, in order
    patience_arg,            \* the patience EarlyStop was constructed with
    patience,                \* EarlyStop.patience
    counter,                 \* EarlyStop.counter
    validation_loss_history, \* TrainingHistory.validation_loss_history
    signal                   \* what on_validation_epoch_end last returned

mixer_vars == <<group_by, freq, model, train_cache, prepared, hyperparam_search,
                cat_df, pc, op, raised, ydf, contexts>>
stop_vars == <<patience_arg, patience, counter, validation_loss_history, signal>>
vars == <<mixer_vars, stop_vars>>

-----------------------------------------------------------------------------
(* Bounds of the model. *)

MaxTime == 1        \* index labels are 0..MaxTime
MaxTarget == 1      \* target values are 1..MaxTarget
MaxLen == 1         \* rows of an encoded dataset handed to fit / partial_fit
MaxCallLen == 2     \* rows of the dataset handed to __call__
MaxFreq == 2        \* resampling frequencies are 1..MaxFreq index units
MaxEpochs == 4      \* validation epochs a trainer runs
MaxLoss == 2        \* validation losses are 0..MaxLoss
MaxPatience == 3    \* patience arguments are -1..MaxPatience

-----------------------------------------------------------------------------
(* Values. *)

None == <<>>
Some(x) == <<x>>
Max(a, b) == IF a >= b THEN a ELSE b

OBY == "__mdb_original_ts"
TARGET == "y"
DEFAULT_GROUP == "__default_group"
Groups == {"a", "b"}
GroupOrder == <<"a", "b">>
GroupByConfigs == {<<>>, <<"g">>, <<"g", "h">>}
NumericCols == {OBY, TARGET, "x"}

Range(s) == {s[i] : i \in DOMAIN s}

Row(t, y, g) ==
    [idx |-> t,
     cols |-> [c \in {OBY, TARGET, "g", "h", "x"} |->
                 CASE c = OBY -> t
                   [] c = TARGET -> y
                   [] c = "g" -> g
                   [] c = "h" -> "u"
                   [] OTHER -> 0]]

RowSet == {Row(t, y, g) : t \in 0..MaxTime, y \in 1..MaxTarget, g \in Groups}

RECURSIVE FramesUpTo(_)
FramesUpTo(n) ==
    IF n = 0 THEN {<<>>}
    ELSE LET shorter == FramesUpTo(n - 1)
         IN  shorter \cup {Append(f, r) : f \in {g \in shorter : Len(g) = n - 1}, r \in RowSet}

EncodedDs == FramesUpTo(MaxLen)
CallDs == FramesUpTo(MaxCallLen)

-----------------------------------------------------------------------------
(* pandas operations used by _make_initial_ds. *)

\* df[cols]
Select(df, cols) ==
    [i \in DOMAIN df |-> [idx |-> df[i].idx, cols |-> [c \in cols |-> df[i].cols[c]]]]

\* df[df[col].isin(values)]
IsIn(df, col, values) == SelectSeq(df, LAMBDA r : r.cols[col] \in values)

\* df[col].unique()
Unique(df, col) == {df[i].cols[col] : i \in DOMAIN df}

\* The rows of df at the positions in S, in order.
RECURSIVE Take(_, _, _)
Take(df, S, i) ==
    IF i > Len(df) THEN <<>>
    ELSE (IF i \in S THEN <<df[i]>> ELSE <<>>) \o Take(df, S, i + 1)

\* df.sort_index(): by index label; rows with equal labels keep their order.
RECURSIVE SortIndex(_)
SortIndex(df) ==
    IF df = <<>> THEN <<>>
    ELSE LET s == SortIndex(SubSeq(df, 1, Len(df) - 1))
             r == df[Len(df)]
             k == Cardinality({i \in DOMAIN s : s[i].idx <= r.idx})
         IN  SubSeq(s, 1, k) \o <<r>> \o SubSeq(s, k + 1, Len(s))

\* Variant: drop_duplicates() left out.
DropDuplicates_Kept(df) == df

\* df.drop_duplicates(): the first row of each distinct column tuple is kept;
\* the index label takes no part in the comparison.
DropDuplicates(df) ==
    Take(df, {i \in DOMAIN df : \A j \in 1..(i - 1) : df[j].cols # df[i].cols}, 1)

RECURSIVE SumCol(_, _, _)
SumCol(df, c, i) ==
    IF i > Len(df) THEN 0 ELSE df[i].cols[c] + SumCol(df, c, i + 1)

Bucket(t, f) == t \div f

\* df.resample(freq).sum(): one row per bucket from the first to the last
\* occupied one (an empty bucket sums to 0), the numeric columns summed.
RECURSIVE ResampleFrom(_, _, _, _, _)
ResampleFrom(df, f, cols, b, hi) ==
    IF b > hi THEN <<>>
    ELSE LET inb == SelectSeq(df, LAMBDA r : Bucket(r.idx, f) = b)
         IN  <<[idx |-> b * f, cols |-> [c \in cols |-> SumCol(inb, c, 1)]]>>
             \o ResampleFrom(df, f, cols, b + 1, hi)

ResampleSum(df, f, cols) ==
    IF df = <<>> THEN <<>>
    ELSE LET bs == {Bucket(df[i].idx, f) : i \in DOMAIN df}
             lo == CHOOSE b \in bs : \A c \in bs : b <= c
             hi == CHOOSE b \in bs : \A c \in bs : b >= c
         IN  ResampleFrom(df, f, cols \cap NumericCols, lo, hi)

\* Adds a column holding one value to every row.
WithColumn(df, col, v) ==
    [i \in DOMAIN df |->
        [idx |-> df[i].idx,
         cols |-> [c \in (DOMAIN df[i].cols) \cup {col} |->
                     IF c = col THEN v ELSE df[i].cols[c]]]]

\* df.groupby(by=col).resample(freq).sum().reset_index(level=[0]): the groups in
\* key order, each resampled on its own, the key restored as a column.
RECURSIVE GroupbyResampleSum(_, _, _, _, _)
GroupbyResampleSum(df, col, f, cols, k) ==
    IF k > Len(GroupOrder) THEN <<>>
    ELSE LET part == SelectSeq(df, LAMBDA r : r.cols[col] = GroupOrder[k])
         IN  WithColumn(ResampleSum(part, f, cols \ {col}), col, GroupOrder[k])
             \o GroupbyResampleSum(df, col, f, cols, k + 1)

\* PandasDataset.from_long_dataframe(df, target=, item_id=, freq=)
PandasDataset(df, target, item_id, f) ==
    [df |-> df, target |-> target, item_id |-> item_id, freq |-> f]

-----------------------------------------------------------------------------
(* GluonTSMixer *)

n_epochs == 10
early_stop_patience == 3
DefaultConfidence == 90
Horizon == 2

\* The fields __init__ leaves: no model, no cache, not prepared.  It assigns no
\* hyperparam_search, which the class only annotates.
MixerInit ==
    [model |-> None, train_cache |-> None, prepared |-> FALSE,
     hyperparam_search |-> "unset", raised |-> FALSE]

Self ==
    [model |-> model, train_cache |-> train_cache, prepared |-> prepared,
     hyperparam_search |-> hyperparam_search, raised |-> raised]

\* keep_cols, as the set of column names it lists.
KeepCols == {OBY, TARGET} \cup Range(group_by)

\* Variant: training appends to the cache instead of replacing it.
make_initial_df_Merging(cache, df, train, groups) ==
    IF df = None /\ ~train
    THEN IF cache = None THEN [raised |-> TRUE, train_cache |-> cache]
         ELSE [raised |-> FALSE,
               df |-> IF group_by # <<>> THEN IsIn(cache[1], group_by[1], groups)
                      ELSE cache[1],
               train_cache |-> cache]
    ELSE IF df = None THEN [raised |-> TRUE, train_cache |-> cache]
    ELSE LET sub_df == Select(df[1], KeepCols)
         IN  IF train
             THEN [raised |-> FALSE, df |-> sub_df,
                   train_cache |-> Some((IF cache = None THEN <<>> ELSE cache[1]) \o sub_df)]
             ELSE IF group_by # <<>> /\ cache = None
             THEN [raised |-> TRUE, train_cache |-> cache]
             ELSE LET kept == IF group_by # <<>>
                              THEN IsIn(cache[1], group_by[1], groups)
                              ELSE (IF cache = None THEN <<>> ELSE cache[1])
                  IN  [raised |-> FALSE, df |-> SortIndex(kept \o sub_df),
                       train_cache |-> cache]

\* Variant: inference stores the frame it assembled as the cache.
make_initial_df_Caching(cache, df, train, groups) ==
    IF df = None /\ ~train
    THEN IF cache = None THEN [raised |-> TRUE, train_cache |-> cache]
         ELSE [raised |-> FALSE,
               df |-> IF group_by # <<>> THEN IsIn(cache[1], group_by[1], groups)
                      ELSE cache[1],
               train_cache |-> Some(IF group_by # <<>>
                                    THEN IsIn(cache[1], group_by[1], groups)
                                    ELSE cache[1])]
    ELSE IF df = None THEN [raised |-> TRUE, train_cache |-> cache]
    ELSE LET sub_df == Select(df[1], KeepCols)
         IN  IF train
             THEN [raised |-> FALSE, df |-> sub_df, train_cache |-> Some(sub_df)]
             ELSE IF group_by # <<>> /\ cache = None
             THEN [raised |-> TRUE, train_cache |-> cache]
             ELSE LET kept == IF group_by # <<>>
                              THEN IsIn(cache[1], group_by[1], groups)
                              ELSE (IF cache = None THEN <<>> ELSE cache[1])
                  IN  [raised |-> FALSE, df |-> SortIndex(kept \o sub_df),
                       train_cache |-> Some(SortIndex(kept \o sub_df))]

\* The first half of _make_initial_ds: the frame to deduplicate and resample,
\* and the cache left.  cache is self.train_cache on entry, df is None or the
\* frame passed, groups is a set of group keys (unused when no group-by column
\* is configured or when training).  It raises on None[...]: a missing df when
\* training, a missing cache when one is read by column; pd.concat drops a
\* missing cache silently.
make_initial_df(cache, df, train, groups) ==
    IF df = None /\ ~train
    THEN IF cache = None THEN [raised |-> TRUE, train_cache |-> cache]
         ELSE [raised |-> FALSE,
               df |-> IF group_by # <<>> THEN IsIn(cache[1], group_by[1], groups)
                      ELSE cache[1],
               train_cache |-> cache]
    ELSE IF df = None THEN [raised |-> TRUE, train_cache |-> cache]
    ELSE LET sub_df == Select(df[1], KeepCols)
         IN  IF train
             THEN [raised |-> FALSE, df |-> sub_df, train_cache |-> Some(sub_df)]
             ELSE IF group_by # <<>> /\ cache = None
             THEN [raised |-> TRUE, train_cache |-> cache]
             ELSE LET kept == IF group_by # <<>>
                              THEN IsIn(cache[1], group_by[1], groups)
                              ELSE (IF cache = None THEN <<>> ELSE cache[1])
                  IN  [raised |-> FALSE, df |-> SortIndex(kept \o sub_df),
                       train_cache |-> cache]

\* Variant: no group id column is synthesized when no group-by is configured.
make_resampled_ds_Bare(df) ==
    LET dedup == DropDuplicates(df)
    IN  IF group_by # <<>>
        THEN PandasDataset(
                 GroupbyResampleSum(dedup, group_by[1], freq, KeepCols, 1),
                 TARGET, group_by, freq)
        ELSE PandasDataset(ResampleSum(dedup, freq, KeepCols), TARGET, <<DEFAULT_GROUP>>, freq)

\* The second half: deduplicate, resample, wrap.
make_resampled_ds(df) ==
    LET dedup == DropDuplicates(df)
    IN  IF group_by # <<>>
        THEN PandasDataset(
                 GroupbyResampleSum(dedup, group_by[1], freq, KeepCols, 1),
                 TARGET, group_by, freq)
        ELSE PandasDataset(
                 WithColumn(ResampleSum(dedup, freq, KeepCols), DEFAULT_GROUP, DEFAULT_GROUP),
                 TARGET, <<DEFAULT_GROUP>>, freq)

\* _make_initial_ds: [raised, ds |-> the dataset returned, train_cache |-> the
\* cache left]; no ds when it raises.
make_initial_ds(cache, df, train, groups) ==
    LET r == make_initial_df(cache, df, train, groups)
    IN  IF r.raised THEN r
        ELSE [raised |-> FALSE, ds |-> make_resampled_ds(r.df), train_cache |-> r.train_cache]

\* DeepAREstimator(...).train(train_ds): the predictor, named by what it was
\* configured with and trained on.
Train(train_ds) ==
    [freq |-> train_ds.freq, prediction_length |-> Horizon, epochs |-> n_epochs,
     patience |-> early_stop_patience, train_ds |-> train_ds]

\* Variant: a failed training clears the model.
fit_Clearing(self, train_data, dev_data, ok) ==
    LET cat_ds == train_data \o dev_data
        r == make_initial_ds(self.train_cache, Some(cat_ds), TRUE, {})
    IN  [self EXCEPT !.train_cache = r.train_cache,
                     !.model = IF ok THEN Some(Train(r.ds)) ELSE None,
                     !.raised = ~ok]

\* fit.  ok tells whether the estimator trains or raises.
fit(self, train_data, dev_data, ok) ==
    LET cat_ds == train_data \o dev_data
        r == make_initial_ds(self.train_cache, Some(cat_ds), TRUE, {})
    IN  [self EXCEPT !.train_cache = r.train_cache,
                     !.model = IF ok THEN Some(Train(r.ds)) ELSE @,
                     !.raised = ~ok]

\* Variant: the arguments are passed on to fit in the order received.
partial_fit_Unswapped(self, train_data, dev_data, ok) ==
    LET s == fit([self EXCEPT !.hyperparam_search = "False"], train_data, dev_data, ok)
    IN  IF s.raised THEN s ELSE [s EXCEPT !.prepared = TRUE]

\* partial_fit
partial_fit(self, train_data, dev_data, ok) ==
    LET s == fit([self EXCEPT !.hyperparam_search = "False"], dev_data, train_data, ok)
    IN  IF s.raised THEN s ELSE [s EXCEPT !.prepared = TRUE]

\* Variant: the arguments are not consulted.
Confidence_Fixed(args) == DefaultConfidence

\* conf = args.fixed_confidence if args.fixed_confidence else 0.9
Confidence(args) ==
    IF args.fixed_confidence # None /\ args.fixed_confidence[1] # 0
    THEN args.fixed_confidence[1]
    ELSE DefaultConfidence

\* groups = ds.data_frame[gby[0]].unique() if gby else None
CallGroups(ds) == IF group_by # <<>> THEN Unique(ds, group_by[1]) ELSE {}

\* Variant: the history of a row includes the row (iloc[:idx + 1]).
History_Inclusive(ds, i) == Some(SubSeq(ds, 1, i))

\* df = ds.data_frame.iloc[:idx] if idx != 0 else None, for the i-th row (idx = i - 1)
History(ds, i) == IF i # 1 THEN Some(SubSeq(ds, 1, i - 1)) ELSE None

\* The loop of __call__ from row i on: the datasets built, the cache left, and
\* whether a row raised, in _make_initial_ds or in predict on a missing model.
RECURSIVE CallLoop(_, _, _, _, _)
CallLoop(self, cache, ds, groups, i) ==
    IF i > Len(ds) THEN [contexts |-> <<>>, train_cache |-> cache, raised |-> FALSE]
    ELSE LET r == make_initial_ds(cache, History(ds, i), FALSE, groups)
         IN  IF r.raised
             THEN [contexts |-> <<>>, train_cache |-> r.train_cache, raised |-> TRUE]
             ELSE IF self.model = None
             THEN [contexts |-> <<r.ds>>, train_cache |-> r.train_cache, raised |-> TRUE]
             ELSE LET rest == CallLoop(self, r.train_cache, ds, groups, i + 1)
                  IN  [contexts |-> <<r.ds>> \o rest.contexts,
                       train_cache |-> rest.train_cache, raised |-> rest.raised]

\* list(self.model.predict(input_ds))[0] for the i-th row, named by the row:
\* it is what the model predicts from contexts[i].  Then what is read off it.
Forecast(i) == [predicted_from |-> i]
Mean(forecasts) == [stat |-> "mean", forecasts |-> forecasts]
Quantile(forecasts, q) == [stat |-> "quantile", q |-> q, forecasts |-> forecasts]

\* __call__: [self |-> the mixer left, ydf |-> the frame returned (none when it
\* raises), contexts |-> the datasets built].
call(self, ds, args) ==
    LET length == Len(ds)
        conf == Confidence(args)
        r == CallLoop(self, self.train_cache, ds, CallGroups(ds), 1)
    IN  [self |-> [self EXCEPT !.train_cache = r.train_cache, !.raised = r.raised],
         ydf |-> IF r.raised THEN <<>>
                 ELSE [i \in 1..length |->
                         LET forecasts == Forecast(i)
                         IN  [index |-> ds[i].idx,
                              prediction |-> Mean(forecasts),
                              lower |-> Quantile(forecasts, 100 - conf),
                              upper |-> Quantile(forecasts, conf),
                              confidence |-> conf]],
         contexts |-> r.contexts]

-----------------------------------------------------------------------------
(* EarlyStop *)

EarlyStop(p) ==
    [patience |-> Max(1, p), counter |-> 0, validation_loss_history |-> <<>>]

\* Variant: a tie with the previous epoch counts as a worsening.
on_validation_epoch_end_TiesCount(es, epoch_loss) ==
    LET h == Append(es.validation_loss_history, epoch_loss)
        n == Len(h)
        c == IF n > 1
             THEN (IF h[n] >= h[n - 1] THEN es.counter + 1 ELSE 0)
             ELSE es.counter
    IN  [es |-> [es EXCEPT !.validation_loss_history = h, !.counter = c],
         ret |-> ~(c >= es.patience)]

\* Variant: the stop comes one epoch late (counter > patience).
on_validation_epoch_end_Late(es, epoch_loss) ==
    LET h == Append(es.validation_loss_history, epoch_loss)
        n == Len(h)
        c == IF n > 1
             THEN (IF h[n] > h[n - 1] THEN es.counter + 1 ELSE 0)
             ELSE es.counter
    IN  [es |-> [es EXCEPT !.validation_loss_history = h, !.counter = c],
         ret |-> ~(c > es.patience)]

\* on_validation_epoch_end: TrainingHistory appends the loss, then the counter
\* is updated and compared with the patience.  ret is the value returned.
on_validation_epoch_end(es, epoch_loss) ==
    LET h == Append(es.validation_loss_history, epoch_loss)
        n == Len(h)
        c == IF n > 1
             THEN (IF h[n] > h[n - 1] THEN es.counter + 1 ELSE 0)
             ELSE es.counter
    IN  [es |-> [es EXCEPT !.validation_loss_history = h, !.counter = c],
         ret |-> ~(c >= es.patience)]

-----------------------------------------------------------------------------
(* Specifications. *)

Patiences == (0 - 1)..MaxPatience
Losses == 0..MaxLoss
ConfidenceLevels == {0, 80}
PredictionArguments ==
    {[fixed_confidence |-> None]} \cup {[fixed_confidence |-> Some(c)] : c \in ConfidenceLevels}

Callback ==
    [patience |-> patience, counter |-> counter,
     validation_loss_history |-> validation_loss_history]

Constructed(p) ==
    /\ patience_arg = p
    /\ patience = EarlyStop(p).patience
    /\ counter = EarlyStop(p).counter
    /\ validation_loss_history = EarlyStop(p).validation_loss_history
    /\ signal = None

MixerConstructed ==
    /\ model = MixerInit.model
    /\ train_cache = MixerInit.train_cache
    /\ prepared = MixerInit.prepared
    /\ hyperparam_search = MixerInit.hyperparam_search
    /\ raised = MixerInit.raised
    /\ cat_df = None
    /\ pc = "caller"
    /\ op = [name |-> "__init__"]
    /\ ydf = <<>>
    /\ contexts = <<>>

Init ==
    /\ group_by \in GroupByConfigs
    /\ freq \in 1..MaxFreq
    /\ MixerConstructed
    /\ Constructed(early_stop_patience)

Commit(s) ==
    /\ model' = s.model
    /\ train_cache' = s.train_cache
    /\ prepared' = s.prepared
    /\ hyperparam_search' = s.hyperparam_search
    /\ raised' = s.raised

Fit ==
    \E train_data \in EncodedDs, dev_data \in EncodedDs, ok \in BOOLEAN :
        /\ pc = "caller"
        /\ pc' = "returned"
        /\ Commit(fit(Self, train_data, dev_data, ok))
        /\ cat_df' = Some(train_data \o dev_data)
        /\ op' = [name |-> "fit", train_data |-> train_data, dev_data |-> dev_data]
        /\ ydf' = <<>>
        /\ contexts' = <<>>
        /\ UNCHANGED <<group_by, freq, stop_vars>>

PartialFit ==
    \E train_data \in EncodedDs, dev_data \in EncodedDs, ok \in BOOLEAN :
        /\ pc = "caller"
        /\ pc' = "returned"
        /\ Commit(partial_fit(Self, train_data, dev_data, ok))
        /\ cat_df' = Some(dev_data \o train_data)
        /\ op' = [name |-> "partial_fit", train_data |-> train_data, dev_data |-> dev_data]
        /\ ydf' = <<>>
        /\ contexts' = <<>>
        /\ UNCHANGED <<group_by, freq, stop_vars>>

Call ==
    \E ds \in CallDs, args \in PredictionArguments :
        LET r == call(Self, ds, args)
        IN  /\ pc = "caller"
            /\ pc' = "returned"
            /\ Commit(r.self)
            /\ op' = [name |-> "__call__", ds |-> ds, args |-> args]
            /\ ydf' = r.ydf
            /\ contexts' = r.contexts
            /\ UNCHANGED <<group_by, freq, cat_df, stop_vars>>

\* Control is back with the caller, which holds what the operation returned:
\* the mixer keeps its fields, and the record of the operation is dropped.
Return ==
    /\ pc = "returned"
    /\ pc' = "caller"
    /\ op' = [name |-> "__init__"]
    /\ raised' = FALSE
    /\ ydf' = <<>>
    /\ contexts' = <<>>
    /\ UNCHANGED <<group_by, freq, model, train_cache, prepared, hyperparam_search,
                   cat_df, stop_vars>>

Next == Fit \/ PartialFit \/ Call \/ Return

Spec == Init /\ [][Next]_vars

\* The dataset builder on its own: _make_initial_ds called with any frame (or
\* none), either mode and any set of groups, on a mixer fit has left any cache in.
MakeInitialDs ==
    \E df \in {None} \cup {Some(d) : d \in CallDs}, train \in BOOLEAN, groups \in SUBSET Groups :
        LET r == make_initial_ds(train_cache, df, train, groups)
        IN  /\ pc = "caller"
            /\ pc' = "returned"
            /\ train_cache' = r.train_cache
            /\ raised' = r.raised
            /\ cat_df' = IF train /\ ~r.raised THEN df ELSE cat_df
            /\ op' = [name |-> "_make_initial_ds", df |-> df, train |-> train, groups |-> groups]
            /\ ydf' = <<>>
            /\ contexts' = IF r.raised THEN <<>> ELSE <<r.ds>>
            /\ UNCHANGED <<group_by, freq, model, prepared, hyperparam_search, stop_vars>>

NextBuilder == Fit \/ MakeInitialDs \/ Return

SpecBuilder == Init /\ [][NextBuilder]_vars

InitEarlyStop ==
    /\ group_by = <<>>
    /\ freq = 1
    /\ MixerConstructed
    /\ \E p \in Patiences : Constructed(p)

OnValidationEpochEnd ==
    \E epoch_loss \in Losses :
        /\ Len(validation_loss_history) < MaxEpochs
        /\ LET r == on_validation_epoch_end(Callback, epoch_loss)
           IN  /\ counter' = r.es.counter
               /\ validation_loss_history' = r.es.validation_loss_history
               /\ patience' = r.es.patience
               /\ signal' = Some(r.ret)
        /\ UNCHANGED <<patience_arg, mixer_vars>>

NextEarlyStop == OnValidationEpochEnd

SpecEarlyStop == InitEarlyStop /\ [][NextEarlyStop]_vars

-----------------------------------------------------------------------------
(* Claims about EarlyStop, checked under SpecEarlyStop. *)

\* The number of most recent consecutive epochs of h whose loss is strictly
\* worse than (above) the loss of the epoch just before.
RECURSIVE WorseRun(_)
WorseRun(h) ==
    IF Len(h) > 1 /\ h[Len(h)] > h[Len(h) - 1]
    THEN 1 + WorseRun(SubSeq(h, 1, Len(h) - 1))
    ELSE 0

\* The same count with "not better than" (a tie counts) in place of "worse than".
RECURSIVE NonImprovingRun(_)
NonImprovingRun(h) ==
    IF Len(h) > 1 /\ h[Len(h)] >= h[Len(h) - 1]
    THEN 1 + NonImprovingRun(SubSeq(h, 1, Len(h) - 1))
    ELSE 0

Improved(h) == Len(h) > 1 /\ h[Len(h)] < h[Len(h) - 1]

-----------------------------------------------------------------------------
(* Claims about fit and partial_fit, checked under Spec. *)

Training == {"fit", "partial_fit"}

\* fit(train_data, dev_data) followed, when it returns, by self.prepared = True.
FitThenPrepared(self, train_data, dev_data, ok) ==
    LET s == fit(self, train_data, dev_data, ok)
    IN  IF s.raised THEN s ELSE [s EXCEPT !.prepared = TRUE]

\* C2, as stated: a partial_fit(a, b) step leaves the mixer exactly as
\* fit(b, a) followed by marking it prepared would: same model, same
\* train_cache, same other fields.
C2_PartialFitIsSwappedFit ==
    [][(pc = "caller" /\ op'.name = "partial_fit") =>
          Self' = FitThenPrepared(Self, op'.dev_data, op'.train_data, ~raised')]_vars

\* C2, amended: it does so except for hyperparam_search, which partial_fit
\* also sets to False.
C2_PartialFitIsSwappedFitAndFlag ==
    [][(pc = "caller" /\ op'.name = "partial_fit") =>
          Self' = [FitThenPrepared(Self, op'.dev_data, op'.train_data, ~raised')
                     EXCEPT !.hyperparam_search = "False"]]_vars

\* partial_fit has returned from two different one-row datasets: the cache
\* holds dev_data's row first.
C2_Witness ==
    /\ pc = "returned"
    /\ op.name = "partial_fit"
    /\ ~raised
    /\ prepared
    /\ Len(op.train_data) = 1
    /\ Len(op.dev_data) = 1
    /\ op.train_data # op.dev_data
    /\ model # None
    /\ train_cache = Some(Select(op.dev_data \o op.train_data, KeepCols))

\* C3: the cache is absent until a training call, and from then on it is the
\* keep_cols projection (order-by, target, group-by columns; every row, in
\* order) of the frame the most recent training call was given, whatever
\* earlier calls cached.
C3_CacheIsLatestProjection ==
    IF cat_df = None THEN train_cache = None
    ELSE /\ train_cache = Some(Select(cat_df[1], KeepCols))
         /\ \A i \in DOMAIN train_cache[1] :
                DOMAIN train_cache[1][i].cols = {OBY, TARGET} \cup Range(group_by)

\* A fit whose estimator raised has replaced the cache of an earlier,
\* successful training call: the model was trained on data the cache no longer
\* yields.
C3_Witness ==
    /\ pc = "returned"
    /\ op.name = "fit"
    /\ raised
    /\ model # None
    /\ train_cache # None
    /\ train_cache[1] # <<>>
    /\ model[1].train_ds.df # <<>>
    /\ model[1].train_ds # make_resampled_ds(train_cache[1])

\* C10: when the estimator raises inside fit or partial_fit, the call raises,
\* the model is the one from before the call, the cache is already the
\* projection of this call's frame, and prepared is as it was before the call.
C10_FailedFitKeepsModel ==
    [][(pc = "caller" /\ op'.name \in Training /\ raised') =>
          /\ pc' = "returned"
          /\ model' = model
          /\ prepared' = prepared
          /\ train_cache' =
               Some(Select(IF op'.name = "fit"
                           THEN op'.train_data \o op'.dev_data
                           ELSE op'.dev_data \o op'.train_data, KeepCols))]_vars

\* A partial_fit has raised on a mixer that was never prepared: it still is
\* not, and its model is one an earlier fit trained on other data than the
\* cache now holds.
C10_Witness ==
    /\ pc = "returned"
    /\ op.name = "partial_fit"
    /\ raised
    /\ ~prepared
    /\ model # None
    /\ train_cache # None
    /\ model[1].train_ds # make_resampled_ds(train_cache[1])

-----------------------------------------------------------------------------
(* Claims about __call__, checked under Spec. *)

\* C4: a __call__ step, raising or not, leaves model and train_cache as they
\* were, through every dataset it builds; only a fit or partial_fit step
\* changes either.
C4_CallLeavesModelAndCache ==
    [][/\ (pc = "caller" /\ op'.name = "__call__") =>
            (model' = model /\ train_cache' = train_cache)
       /\ (model' # model \/ train_cache' # train_cache) => op'.name \in Training]_vars

\* A __call__ over two rows has returned: it built one dataset from the cache
\* alone and one from the cache and the first row.
C4_Witness ==
    /\ pc = "returned"
    /\ op.name = "__call__"
    /\ ~raised
    /\ Len(op.ds) = 2
    /\ Len(contexts) = 2
    /\ train_cache # None
    /\ train_cache[1] # <<>>

\* The dataset __call__ builds for the i-th row of ds on the present cache.
ContextOf(ds, i) ==
    make_initial_ds(train_cache, History(ds, i), FALSE, CallGroups(ds)).ds

\* C5, as stated: the dataset built for a row is the same for every input that
\* has the same rows before it, whatever the rows at and after it are.
C5_ContextIgnoresLaterRows ==
    (pc = "returned" /\ op.name = "__call__") =>
        \A i \in DOMAIN contexts : \A d \in CallDs :
            (Len(d) >= i /\ SubSeq(d, 1, i - 1) = SubSeq(op.ds, 1, i - 1)) =>
                ContextOf(d, i) = contexts[i]

\* C5, amended: it is the same for every input that has the same rows before
\* it and the same set of values in the first group-by column over all its
\* rows (the groups __call__ restricts the cache to); with no group-by column
\* configured, the rows before it decide alone.
C5_ContextIgnoresLaterRowsButGroups ==
    (pc = "returned" /\ op.name = "__call__") =>
        \A i \in DOMAIN contexts : \A d \in CallDs :
            (/\ Len(d) >= i
             /\ SubSeq(d, 1, i - 1) = SubSeq(op.ds, 1, i - 1)
             /\ CallGroups(d) = CallGroups(op.ds)) =>
                ContextOf(d, i) = contexts[i]

\* With a group-by column, a __call__ over rows of two groups has returned on
\* a cache that holds both groups.
C5_Witness ==
    /\ pc = "returned"
    /\ op.name = "__call__"
    /\ ~raised
    /\ group_by # <<>>
    /\ Len(contexts) = 2
    /\ op.ds[1].cols["g"] # op.ds[2].cols["g"]
    /\ Unique(train_cache[1], "g") = Groups
    /\ contexts[1] # contexts[2]

\* C8, as stated: every row returned carries the fixed confidence the
\* arguments supply, or 0.9 when they supply none; its lower bound is the
\* quantile at 1 - confidence and its upper bound the quantile at confidence
\* of the forecast for that row.
C8_ConfidenceIsSuppliedOrDefault ==
    (pc = "returned" /\ op.name = "__call__" /\ ~raised) =>
        /\ Len(ydf) = Len(op.ds)
        /\ \A i \in DOMAIN ydf :
             LET conf == IF op.args.fixed_confidence # None
                         THEN op.args.fixed_confidence[1]
                         ELSE DefaultConfidence
             IN  /\ ydf[i].confidence = conf
                 /\ ydf[i].lower = Quantile(Forecast(i), 100 - conf)
                 /\ ydf[i].upper = Quantile(Forecast(i), conf)

\* C8, amended: the confidence is the supplied one when it is supplied and not
\* zero, and 0.9 when none or zero is supplied; the bounds as stated.
C8_ConfidenceIsNonZeroSuppliedOrDefault ==
    (pc = "returned" /\ op.name = "__call__" /\ ~raised) =>
        /\ Len(ydf) = Len(op.ds)
        /\ \A i \in DOMAIN ydf :
             LET conf == IF op.args.fixed_confidence \notin {None, Some(0)}
                         THEN op.args.fixed_confidence[1]
                         ELSE DefaultConfidence
             IN  /\ ydf[i].confidence = conf
                 /\ ydf[i].lower = Quantile(Forecast(i), 100 - conf)
                 /\ ydf[i].upper = Quantile(Forecast(i), conf)

\* A __call__ given a fixed confidence of 0.8 has returned two rows.
C8_Witness ==
    /\ pc = "returned"
    /\ op.name = "__call__"
    /\ ~raised
    /\ op.args.fixed_confidence = Some(80)
    /\ Len(ydf) = 2
    /\ ydf[2].confidence = 80
    /\ ydf[2].lower.q = 20

\* The datasets the mixer holds in a state: the one its model was trained on
\* and the ones the operation that just ended built.
Produced ==
    Range(contexts) \cup (IF model = None THEN {} ELSE {model[1].train_ds})

GroupIdColumn == IF group_by # <<>> THEN group_by[1] ELSE DEFAULT_GROUP

-----------------------------------------------------------------------------
(* Claims about _make_initial_ds, checked under SpecBuilder. *)

\* df without the rows that repeat an earlier row of it exactly.
Deduplicated(df) ==
    Take(df, {i \in DOMAIN df : \A j \in 1..(i - 1) : df[j] # df[i]}, 1)

\* C6: the dataset _make_initial_ds has built from a frame, in training mode
\* or in inference mode on the cache, is the dataset it builds from that frame
\* with its exact duplicate rows removed.
C6_SameAsOnDeduplicated ==
    (pc = "returned" /\ op.name = "_make_initial_ds" /\ ~raised /\ op.df # None) =>
        contexts[1] =
            make_initial_ds(train_cache, Some(Deduplicated(op.df[1])), op.train, op.groups).ds

\* In inference mode on a cache that holds a row, a frame that repeats a row
\* of the cache twice has been built into a dataset.
C6_Witness ==
    /\ pc = "returned"
    /\ op.name = "_make_initial_ds"
    /\ ~raised
    /\ ~op.train
    /\ op.df # None
    /\ Len(op.df[1]) = 2
    /\ op.df[1][1] = op.df[1][2]
    /\ train_cache # None
    /\ train_cache[1] # <<>>
    /\ contexts[1].df # <<>>

====
